---------------------------- MODULE Spec2Model ----------------------------
(***************************************************************************)
(* The repetition-code notebook                                            *)
(* (tutorial/sections/repetitioncode/Repetition_Code.ipynb) as a state     *)
(* machine: the results script (section 4) calling GetData, which calls    *)
(* RunRepetition for both bit values, remaps every raw outcome into the    *)
(* three views, and decodes them with CalculateError.                      *)
(*                                                                         *)
(* Numbers.  The notebook computes with Python floats that are counts      *)
(* divided by shots.  The model computes the same expressions over exact   *)
(* rationals <<numerator, denominator>> in lowest terms.                   *)
(*                                                                         *)
(* Strings.  A bit string is a sequence of the characters "0" and "1";     *)
(* Python's s[i] (0-based) is s[i+1] here.                                 *)
(*                                                                         *)
(* Dictionaries.  A dict is a function whose DOMAIN is its key set.        *)
(*                                                                         *)
(* Specifications.  Spec is the results script.  SpecCalls is GetData and  *)
(* CalculateError called on their own, FairSpecCalls the same with the     *)
(* program never stopping inside RunRepetition's loop.  SpecUnits is       *)
(* RunRepetition's circuit and GetData's remapping of one raw string, for  *)
(* every code distance up to MaxUnitD.                                     *)
(***************************************************************************)
EXTENDS Integers, Sequences, FiniteSets

(***************************************************************************)
(* Bounds of the model.  shots, totalRuns and maxSize carry the names of   *)
(* the notebook's settings (8192, 10 and 8 there); the model runs the same *)
(* code with smaller settings.                                             *)
(***************************************************************************)
\* shots per execution (RunRepetition sets 8192)
shots == 2
\* trials per code distance (the script sets 10)
totalRuns == 2
\* largest code distance of the script's loop (the script sets 8)
maxSize == 4
\* the backend reports the outcomes that read, as binary numbers, below PoolSize
PoolSize == 3
\* largest code distance of a direct GetData call
MaxD == 3
\* CalculateError's inputs: probabilities are multiples of 1/Grain
Grain == 2
\* CalculateError's inputs: number of distinct strings
MaxKeys == 2
\* largest code distance of a direct call of the remapping, addressing and CNOT code
MaxUnitD == 8
\* raw strings handed to the remapping on its own have at most MaxOnes characters "1"
MaxOnes == 2

(***************************************************************************)
(* Program constants.                                                      *)
(***************************************************************************)
\* rows of every accumulator: [ [0]*2 for _ in range(6) ]
NumSizes == 6
\* the script's first code distance: range(3,maxSize+1)
MinSize == 3
\* qubits of the real device
DeviceQubits == 16
\* the largest code distance the script runs on the device: maxSize = 8
LargestDeviceSize == 8

VARIABLES
    pc,             \* position of the program
    device,         \* backend name
    d,              \* code distance
    run,            \* trial index of the script's loop
    bit,            \* GetData's loop variable
    results,        \* RunRepetition's local: what get_counts returned
    resultsRaw, resultsFull, resultsCode, resultsSingle,
    todo,           \* keys of resultsRaw[bit] the loop has not reached yet
    errorFull, errorCode, errorSingle,
    errorFullMean, errorFullVar,
    errorCodeMean, errorCodeVar,
    errorSingleMean, errorSingleVar,
    trials,         \* the GetData returns of the current distance, in order
    repetitionScript,   \* RunRepetition's circuit: the gates in the order they were added
    printed         \* what AddCnot has printed: the pairs that cannot be entangled

accs == <<errorFullMean, errorFullVar, errorCodeMean, errorCodeVar,
          errorSingleMean, errorSingleVar>>
dicts == <<resultsRaw, resultsFull, resultsCode, resultsSingle>>
errs == <<errorFull, errorCode, errorSingle>>
circuit == <<repetitionScript, printed>>
vars == <<pc, device, d, run, bit, results, dicts, todo, errs, accs, trials, circuit>>

---------------------------------------------------------------------------
(* Exact rational arithmetic *)

Abs(x) == IF x < 0 THEN -x ELSE x

RECURSIVE Gcd(_, _)
Gcd(a, b) == IF b = 0 THEN a ELSE Gcd(b, a % b)

Norm(q) ==
    LET g == Gcd(Abs(q[1]), Abs(q[2]))
        s == IF q[2] < 0 THEN -1 ELSE 1
    IN  <<(s * q[1]) \div g, (s * q[2]) \div g>>

Zero == <<0, 1>>
One == <<1, 1>>
Half == <<1, 2>>

RAdd(p, q) == Norm(<<p[1] * q[2] + q[1] * p[2], p[2] * q[2]>>)
RSub(p, q) == Norm(<<p[1] * q[2] - q[1] * p[2], p[2] * q[2]>>)
RMul(p, q) == Norm(<<p[1] * q[1], p[2] * q[2]>>)
RDiv(p, n) == Norm(<<p[1], p[2] * n>>)
RSquare(p) == RMul(p, p)
RLess(p, q) == p[1] * q[2] < q[1] * p[2]
RLeq(p, q) == p[1] * q[2] <= q[1] * p[2]

EmptyDict == [k \in {} |-> Zero]

RECURSIVE SumOver(_, _)
SumOver(f, S) ==
    IF S = {} THEN Zero
    ELSE LET k == CHOOSE x \in S : TRUE
         IN  RAdd(f[k], SumOver(f, S \ {k}))

Total(dict) == SumOver(dict, DOMAIN dict)

---------------------------------------------------------------------------
(* GetAddress *)

\* a variant of GetAddress that adds the offset on the device as well
GetAddressPlus(codeQubit, offset, simulator) ==
    IF simulator THEN 2 * codeQubit + offset ELSE (5 - 2 * codeQubit + offset) % 16

GetAddress(codeQubit, offset, simulator) ==
    IF simulator THEN 2 * codeQubit + offset
    ELSE (5 - 2 * codeQubit - offset) % 16

Simulator(dev) == dev # "ibmqx3"

Num(dist, simulator) == IF simulator THEN 2 * dist ELSE DeviceQubits

(* Python's s[i]: 0-based, a negative index counts from the end *)
PyIndex(s, i) == IF i >= 0 THEN s[i + 1] ELSE s[Len(s) + i + 1]

---------------------------------------------------------------------------
(* The backend: Q_program.execute followed by Q_program.get_counts.  It is *)
(* external; the model lets it answer with any of a small set of           *)
(* responses.  A response is the dict get_counts returns: its bit-string   *)
(* keys with their counts, and whether it holds a 'status' key.            *)

RECURSIVE NatSum(_, _)
NatSum(f, S) ==
    IF S = {} THEN 0
    ELSE LET k == CHOOSE x \in S : TRUE
         IN  f[k] + NatSum(f, S \ {k})

\* the raw string of length num with a "1" exactly at the addresses in S
RawWithOnes(S, num) == [i \in 1..num |-> IF (num - i) \in S THEN "1" ELSE "0"]

\* the raw string of length num that reads v as a binary number (address 0 rightmost)
RawOfValue(v, num) == RawWithOnes({ a \in 0..(num - 1) : (v \div (2 ^ a)) % 2 = 1 }, num)

RawPool(num) == { RawOfValue(v, num) : v \in { w \in 0..(PoolSize - 1) : w < 2 ^ num } }

Support(f) == { k \in DOMAIN f : f[k] > 0 }

\* the count dicts over pool whose counts sum to total
CountMaps(pool, total) ==
    { [k \in Support(f) |-> f[k]] :
        f \in { g \in [pool -> 0..total] : NatSum(g, pool) = total } }

CompleteResponses(num) ==
    { [status |-> FALSE, counts |-> c] : c \in CountMaps(RawPool(num), shots) }

\* an answer with a 'status' key: no counts, or the counts of a part of the shots
StatusResponses(num) ==
    { [status |-> TRUE, counts |-> c] :
        c \in UNION { CountMaps(RawPool(num), t) : t \in 0..(shots - 1) } }

Responses(num) == CompleteResponses(num) \cup StatusResponses(num)

---------------------------------------------------------------------------
(* RunRepetition: the circuit.  A circuit under construction is a record of *)
(* the gates added so far (script), the pairs AddCnot has printed as not    *)
(* entangleable (printed), and whether an exception ended the construction  *)
(* (error).  Gates are <<"x", q>>, <<"h", q>>, <<"cx", control, target>>,   *)
(* <<"u3", n, m, q>> for a rotation by n/m of pi, <<"measure", q, c>> and   *)
(* <<"barrier">>.                                                           *)

EmptyCircuit == [script |-> <<>>, printed |-> <<>>, error |-> FALSE]

\* the gates are added unless an exception has ended the construction before
AddGates(script, gates) ==
    IF script.error THEN script ELSE [script EXCEPT !.script = @ \o gates]

\* range(from,to,step) as a sequence
Range(from, to, step) ==
    [i \in 1..(IF to > from THEN (to - from + step - 1) \div step ELSE 0) |->
        from + (i - 1) * step]

AddError(script, num, simulator, bitValue) ==
    LET fracAncilla == <<1, 20>>
        fracCode == IF bitValue = 1 THEN <<1, 10>> ELSE fracAncilla
        codes == Range(0, num - 1, 2)
        ancillas == Range(1, num - 1, 2)
    IN  IF simulator
        THEN AddGates(script,
                 [i \in 1..Len(codes) |-> <<"u3", fracCode[1], fracCode[2], codes[i]>>]
                 \o [i \in 1..Len(ancillas) |->
                        <<"u3", fracAncilla[1], fracAncilla[2], ancillas[i]>>]
                 \o << <<"u3", fracCode[1], fracCode[2], num - 1>>, <<"barrier">> >>)
        ELSE script

\* b in coupling_map[a]: a CNOT with control a and target b can be implemented
coupling_map ==
    [a \in 0..15 |->
        CASE a = 0 -> {1} [] a = 1 -> {2} [] a = 2 -> {3} [] a = 3 -> {14}
          [] a = 4 -> {3, 5} [] a = 5 -> {} [] a = 6 -> {7, 11} [] a = 7 -> {10}
          [] a = 8 -> {7} [] a = 9 -> {10, 8} [] a = 10 -> {} [] a = 11 -> {10}
          [] a = 12 -> {5, 11, 13} [] a = 13 -> {4, 14} [] a = 14 -> {}
          [] a = 15 -> {0, 14}]

\* a variant of AddCnot that never turns a CNOT round
AddCnotDirect(script, control, target, simulator) ==
    IF script.error THEN script
    ELSE IF control \notin DOMAIN coupling_map THEN [script EXCEPT !.error = TRUE]
    ELSE IF target \in coupling_map[control] \/ simulator
         THEN AddGates(script, << <<"cx", control, target>> >>)
    ELSE [script EXCEPT !.printed = Append(@, <<control, target>>)]

\* coupling_map[control] is looked up first: a control that is no key of it
\* raises KeyError, on a simulator too
AddCnot(script, control, target, simulator) ==
    IF script.error THEN script
    ELSE IF control \notin DOMAIN coupling_map THEN [script EXCEPT !.error = TRUE]
    ELSE IF target \in coupling_map[control] \/ simulator
         THEN AddGates(script, << <<"cx", control, target>> >>)
    ELSE IF control \in coupling_map[target]
         THEN AddGates(script, << <<"h", control>>, <<"h", target>>,
                                 <<"cx", target, control>>,
                                 <<"h", control>>, <<"h", target>> >>)
    ELSE [script EXCEPT !.printed = Append(@, <<control, target>>)]

\* for codeQubit in range(from,to): AddCnot(..., GetAddress(codeQubit,0,simulator),
\* GetAddress(codeQubit,offset,simulator), simulator)
RECURSIVE AddCnots(_, _, _, _, _)
AddCnots(script, from, to, offset, simulator) ==
    IF from >= to THEN script
    ELSE AddCnots(AddCnot(script, GetAddress(from, 0, simulator),
                          GetAddress(from, offset, simulator), simulator),
                  from + 1, to, offset, simulator)

\* RunRepetition from its first line to the measurements
Circuit(bitValue, dist, simulator) ==
    LET num == Num(dist, simulator)
        flipped ==
            IF bitValue = 1
            THEN AddGates(EmptyCircuit,
                     [n \in 1..dist |-> <<"x", GetAddress(n - 1, 0, simulator)>>]
                     \o << <<"x", GetAddress(dist - 1, 1, simulator)>> >>)
            ELSE EmptyCircuit
        prepared == AddError(AddGates(flipped, << <<"barrier">> >>), num, simulator, bitValue)
        forward == AddGates(AddCnots(prepared, 0, dist - 1, 1, simulator), << <<"barrier">> >>)
        between == AddError(forward, num, simulator, bitValue)
        backward == AddGates(AddCnots(between, 1, dist, -1, simulator), << <<"barrier">> >>)
        last == AddError(backward, num, simulator, bitValue)
    IN  AddGates(last, [a \in 1..num |-> <<"measure", a - 1, a - 1>>])

---------------------------------------------------------------------------
(* RunRepetition, after the circuit is built *)

\* a variant of HasStatus that takes every answer for data
NeverStatus(res) == FALSE

\* 'status' in results.keys()
HasStatus(res) == res.status

\* for key in results.keys(): results[key] = results[key]/shots
Fractions(res) == [k \in DOMAIN res.counts |-> RDiv(<<res.counts[k], 1>>, shots)]

---------------------------------------------------------------------------
(* AddProbToResults *)

\* a variant of AddProbToResults that stores prob instead of adding it
AddProbOverwrite(prob, string, dict) ==
    [k \in DOMAIN dict \cup {string} |-> IF k = string THEN prob ELSE dict[k]]

AddProbToResults(prob, string, dict) ==
    LET init == [k \in DOMAIN dict \cup {string} |->
                    IF k \in DOMAIN dict THEN dict[k] ELSE Zero]
    IN  [init EXCEPT ![string] = RAdd(@, prob)]

---------------------------------------------------------------------------
(* CalculateError *)

Other(b) == (b + 1) % 2

\* a variant of Wrong in which a string missing from the other table counts as certain
WrongDefaultOne(b, res, string) ==
    IF string \in DOMAIN res[Other(b)] THEN res[Other(b)][string] ELSE One

\* wrong = 0; if string in results[(bit+1)%2].keys(): wrong = results[(bit+1)%2][string]
Wrong(b, res, string) ==
    IF string \in DOMAIN res[Other(b)] THEN res[Other(b)][string] ELSE Zero

\* a variant of Contribution in which a tie counts as a certain failure
ContributionTieFull(b, res, string) ==
    LET right == res[b][string]
        wrong == Wrong(b, res, string)
    IN  IF RLess(right, wrong) THEN right
        ELSE IF wrong = right THEN right
        ELSE Zero

\* a variant of Contribution with the comparison the wrong way round
ContributionReversed(b, res, string) ==
    LET right == res[b][string]
        wrong == Wrong(b, res, string)
    IN  IF RLess(wrong, right) THEN right
        ELSE IF wrong = right THEN RMul(Half, right)
        ELSE Zero

\* a variant of Contribution that adds 0.5+right at a tie
ContributionHalfPlus(b, res, string) ==
    LET right == res[b][string]
        wrong == Wrong(b, res, string)
    IN  IF RLess(right, wrong) THEN right
        ELSE IF wrong = right THEN RAdd(Half, right)
        ELSE Zero

\* what one pass of the loop over results[bit].keys() adds to error
Contribution(b, res, string) ==
    LET right == res[b][string]
        wrong == Wrong(b, res, string)
    IN  IF RLess(right, wrong) THEN right
        ELSE IF wrong = right THEN RMul(Half, right)
        ELSE Zero

RECURSIVE ErrorOver(_, _, _)
ErrorOver(b, res, S) ==
    IF S = {} THEN Zero
    ELSE LET string == CHOOSE x \in S : TRUE
         IN  RAdd(Contribution(b, res, string), ErrorOver(b, res, S \ {string}))

CalculateError(b, res) == ErrorOver(b, res, DOMAIN res[b])

---------------------------------------------------------------------------
(* GetData: the three strings of one raw key *)

\* a variant of FullFrom that reads the raw string from its left end
RECURSIVE FullFromLeft(_, _, _, _)
FullFromLeft(stringRaw, codeQubit, dist, simulator) ==
    LET code == <<PyIndex(stringRaw, GetAddress(codeQubit, 0, simulator))>>
        anc == IF codeQubit # dist - 1
               THEN <<PyIndex(stringRaw, GetAddress(codeQubit, 1, simulator))>>
               ELSE <<>>
    IN  IF codeQubit >= dist THEN <<>>
        ELSE code \o anc \o FullFromLeft(stringRaw, codeQubit + 1, dist, simulator)

RECURSIVE FullFrom(_, _, _, _)
FullFrom(stringRaw, codeQubit, dist, simulator) ==
    LET bitNum == Len(stringRaw) - 1
        code == <<PyIndex(stringRaw, bitNum - GetAddress(codeQubit, 0, simulator))>>
        anc == IF codeQubit # dist - 1
               THEN <<PyIndex(stringRaw, bitNum - GetAddress(codeQubit, 1, simulator))>>
               ELSE <<>>
    IN  IF codeQubit >= dist THEN <<>>
        ELSE code \o anc \o FullFrom(stringRaw, codeQubit + 1, dist, simulator)

StringFull(stringRaw, dist, simulator) == FullFrom(stringRaw, 0, dist, simulator)

StringCode(stringFull, dist) == [n \in 1..dist |-> PyIndex(stringFull, 2 * (n - 1))]

StringSingle(stringRaw, dist, simulator) ==
    <<PyIndex(stringRaw, (Len(stringRaw) - 1) - GetAddress(dist - 1, 1, simulator))>>

\* "resultsRaw[bit][stringRaw] is not str": the value is a number, never the type str
IsNotStr(value) == TRUE

---------------------------------------------------------------------------
(* State of the program *)

Bits == 0..1

NoResponse == [status |-> FALSE, counts |-> [k \in {} |-> 0]]

\* [{},{}]
EmptyPair == [b \in Bits |-> EmptyDict]

\* [0,0]
ZeroPair == [b \in Bits |-> Zero]

\* [ [0]*2 for _ in range(6) ]
ZeroTable == [n \in 0..(NumSizes - 1) |-> ZeroPair]

simulator == Simulator(device)

\* everything but the position, the device and the distance, as the notebook starts
InitRest ==
    /\ run = 0
    /\ bit = 0
    /\ results = NoResponse
    /\ resultsRaw = EmptyPair
    /\ resultsFull = EmptyPair
    /\ resultsCode = EmptyPair
    /\ resultsSingle = EmptyPair
    /\ todo = {}
    /\ errorFull = ZeroPair
    /\ errorCode = ZeroPair
    /\ errorSingle = ZeroPair
    /\ errorFullMean = ZeroTable
    /\ errorFullVar = ZeroTable
    /\ errorCodeMean = ZeroTable
    /\ errorCodeVar = ZeroTable
    /\ errorSingleMean = ZeroTable
    /\ errorSingleVar = ZeroTable
    /\ trials = <<>>
    /\ repetitionScript = <<>>
    /\ printed = <<>>

---------------------------------------------------------------------------
(* GetData and RunRepetition, step by step *)

\* a variant of GetData's entry that keeps the tables of the call before
StartGetDataKeep ==
    /\ pc = "call"
    /\ bit' = 0
    /\ todo' = {}
    /\ pc' = "run"
    /\ UNCHANGED <<circuit, device, d, run, results, dicts, errs, accs, trials>>

\* GetData's entry: the four lists of two empty dicts
StartGetData ==
    /\ pc = "call"
    /\ resultsRaw' = EmptyPair
    /\ resultsFull' = EmptyPair
    /\ resultsCode' = EmptyPair
    /\ resultsSingle' = EmptyPair
    /\ bit' = 0
    /\ todo' = {}
    /\ pc' = "run"
    /\ UNCHANGED <<circuit, device, d, run, results, errs, accs, trials>>

\* RunRepetition(bit,d,device) up to the retry loop: the circuit is built, then
\* dataNeeded = True; an exception on the way ends the call
EnterRunRepetition ==
    /\ pc = "run"
    /\ LET script == Circuit(bit, d, simulator)
       IN  /\ repetitionScript' = script.script
           /\ printed' = printed \o script.printed
           /\ pc' = IF script.error THEN "raised" ELSE "execute"
    /\ UNCHANGED <<device, d, run, bit, results, dicts, todo, errs, accs, trials>>

\* Q_program.execute(...); results = Q_program.get_counts(...)
Execute ==
    /\ pc = "execute"
    /\ \E r \in Responses(Num(d, simulator)) : results' = r
    /\ pc' = "check"
    /\ UNCHANGED <<circuit, device, d, run, bit, dicts, todo, errs, accs, trials>>

\* 'status' in results.keys(): dataNeeded stays True, the loop runs again
Retry ==
    /\ pc = "check"
    /\ HasStatus(results)
    /\ pc' = "execute"
    /\ UNCHANGED <<circuit, device, d, run, bit, results, dicts, todo, errs, accs, trials>>

\* the loop ends, counts become fractions, RunRepetition returns into resultsRaw[bit]
ReturnResults ==
    /\ pc = "check"
    /\ ~HasStatus(results)
    /\ resultsRaw' = [resultsRaw EXCEPT ![bit] = Fractions(results)]
    /\ todo' = DOMAIN results.counts
    /\ results' = NoResponse
    /\ pc' = "keys"
    /\ UNCHANGED <<circuit, device, d, run, bit, resultsFull, resultsCode, resultsSingle,
                   errs, accs, trials>>

\* one pass of "for stringRaw in resultsRaw[bit].keys()"
RemapKey ==
    /\ pc = "keys"
    /\ \E stringRaw \in todo :
          LET probToAdd == resultsRaw[bit][stringRaw]
              stringFull == StringFull(stringRaw, d, simulator)
              stringCode == StringCode(stringFull, d)
              stringSingle == StringSingle(stringRaw, d, simulator)
          IN  /\ IF IsNotStr(resultsRaw[bit][stringRaw])
                 THEN /\ resultsFull' = [resultsFull EXCEPT
                            ![bit] = AddProbToResults(probToAdd, stringFull, @)]
                      /\ resultsCode' = [resultsCode EXCEPT
                            ![bit] = AddProbToResults(probToAdd, stringCode, @)]
                      /\ resultsSingle' = [resultsSingle EXCEPT
                            ![bit] = AddProbToResults(probToAdd, stringSingle, @)]
                 ELSE UNCHANGED <<resultsFull, resultsCode, resultsSingle>>
              /\ todo' = todo \ {stringRaw}
    /\ UNCHANGED <<circuit, pc, device, d, run, bit, results, resultsRaw, errs, accs, trials>>

\* the key loop is over: the next bit, or on to the errors
EndKeys ==
    /\ pc = "keys"
    /\ todo = {}
    /\ IF bit = 0
       THEN bit' = 1 /\ pc' = "run"
       ELSE bit' = bit /\ pc' = "errors"
    /\ UNCHANGED <<circuit, device, d, run, results, dicts, todo, errs, accs, trials>>

\* errorFull, errorCode, errorSingle for both bits; GetData returns them
CalcErrors ==
    /\ pc = "errors"
    /\ errorFull' = [b \in Bits |-> CalculateError(b, resultsFull)]
    /\ errorCode' = [b \in Bits |-> CalculateError(b, resultsCode)]
    /\ errorSingle' = [b \in Bits |-> CalculateError(b, resultsSingle)]
    /\ pc' = "returned"
    /\ UNCHANGED <<circuit, device, d, run, bit, results, dicts, todo, accs, trials>>

GetDataNext ==
    \/ StartGetData
    \/ EnterRunRepetition
    \/ Execute
    \/ Retry
    \/ ReturnResults
    \/ RemapKey
    \/ EndKeys
    \/ CalcErrors

---------------------------------------------------------------------------
(* The results script (section 4) *)

\* a variant of FoldMean with one entry shared by all the distances
FoldMeanShared(table, dist, err) ==
    [table EXCEPT ![0] = [b \in Bits |-> RAdd(@[b], RDiv(err[b], totalRuns))]]

\* a variant of FoldMean that assigns (=) where the script adds (+=)
FoldMeanAssign(table, dist, err) ==
    [table EXCEPT ![dist - 3] = [b \in Bits |-> RDiv(err[b], totalRuns)]]

\* errorXMean[d-3][bit] += errorX[bit]/totalRuns, for both bits
FoldMean(table, dist, err) ==
    [table EXCEPT ![dist - 3] = [b \in Bits |-> RAdd(@[b], RDiv(err[b], totalRuns))]]

\* errorXVar[d-3][bit] += (errorX[bit]**2)/totalRuns, for both bits
FoldVar(table, dist, err) ==
    [table EXCEPT ![dist - 3] = [b \in Bits |-> RAdd(@[b], RDiv(RSquare(err[b]), totalRuns))]]

\* a variant of FinishVar that subtracts the mean, not its square
FinishVarMean(var, mean, dist) ==
    [var EXCEPT ![dist - 3] = [b \in Bits |-> RSub(@[b], mean[dist - 3][b])]]

\* errorXVar[d-3][bit] -= errorXMean[d-3][bit]**2, for both bits
FinishVar(var, mean, dist) ==
    [var EXCEPT ![dist - 3] = [b \in Bits |-> RSub(@[b], RSquare(mean[dist - 3][b]))]]

\* for run in range(0,totalRuns): ... GetData(d,device,False)
NextRun ==
    /\ pc = "loop"
    /\ run < totalRuns
    /\ pc' = "call"
    /\ UNCHANGED <<circuit, device, d, run, bit, results, dicts, todo, errs, accs, trials>>

\* GetData has returned: add its errors to the means and variances
Fold ==
    /\ pc = "returned"
    /\ errorFullMean' = FoldMean(errorFullMean, d, errorFull)
    /\ errorFullVar' = FoldVar(errorFullVar, d, errorFull)
    /\ errorCodeMean' = FoldMean(errorCodeMean, d, errorCode)
    /\ errorCodeVar' = FoldVar(errorCodeVar, d, errorCode)
    /\ errorSingleMean' = FoldMean(errorSingleMean, d, errorSingle)
    /\ errorSingleVar' = FoldVar(errorSingleVar, d, errorSingle)
    /\ trials' = Append(trials, [full |-> errorFull, code |-> errorCode,
                                 single |-> errorSingle])
    /\ run' = run + 1
    /\ pc' = "loop"
    /\ UNCHANGED <<circuit, device, d, bit, results, dicts, todo, errs>>

\* a variant of Finalise that does not wait for the last run of d
FinaliseEarly ==
    /\ pc = "loop"
    /\ run >= 1
    /\ errorFullVar' = FinishVar(errorFullVar, errorFullMean, d)
    /\ errorCodeVar' = FinishVar(errorCodeVar, errorCodeMean, d)
    /\ errorSingleVar' = FinishVar(errorSingleVar, errorSingleMean, d)
    /\ pc' = "next"
    /\ UNCHANGED <<circuit, device, d, run, bit, results, dicts, todo, errs,
                   errorFullMean, errorCodeMean, errorSingleMean, trials>>

\* the runs of d are over: finish the variances
Finalise ==
    /\ pc = "loop"
    /\ run >= totalRuns
    /\ errorFullVar' = FinishVar(errorFullVar, errorFullMean, d)
    /\ errorCodeVar' = FinishVar(errorCodeVar, errorCodeMean, d)
    /\ errorSingleVar' = FinishVar(errorSingleVar, errorSingleMean, d)
    /\ pc' = "next"
    /\ UNCHANGED <<circuit, device, d, run, bit, results, dicts, todo, errs,
                   errorFullMean, errorCodeMean, errorSingleMean, trials>>

\* for d in range(3,maxSize+1): the next distance, or the end of the loop
NextDistance ==
    /\ pc = "next"
    /\ IF d < maxSize
       THEN d' = d + 1 /\ run' = 0 /\ trials' = <<>> /\ pc' = "loop"
       ELSE pc' = "done" /\ UNCHANGED <<d, run, trials>>
    /\ UNCHANGED <<circuit, device, bit, results, dicts, todo, errs, accs>>

\* device = 'ibmqx3'; the accumulators; the first distance
Init ==
    /\ device = "ibmqx3"
    /\ d = MinSize
    /\ pc = IF MinSize <= maxSize THEN "loop" ELSE "done"
    /\ InitRest

Next ==
    \/ NextRun
    \/ GetDataNext
    \/ Fold
    \/ Finalise
    \/ NextDistance

Spec == Init /\ [][Next]_vars

---------------------------------------------------------------------------
(* The functions called on their own: GetData(d,device,False) for a small  *)
(* d and either kind of device, and CalculateError on a pair of lookup     *)
(* tables.                                                                 *)

Devices == {"ibmqx3", "local_qasm_simulator"}

InitGetData ==
    /\ device \in Devices
    /\ d \in 1..MaxD
    /\ pc = "call"
    /\ InitRest

\* MaxKeys strings of MaxKeys characters, told apart by where their "1" is
CalcKeys == { RawWithOnes({a}, MaxKeys) : a \in 0..(MaxKeys - 1) }

\* 0, 1/Grain, ..., 1
CalcProbs == { Norm(<<j, Grain>>) : j \in 0..Grain }

CalcDicts == UNION { [K -> CalcProbs] : K \in SUBSET CalcKeys }

Thousandths(n) == Norm(<<n, 1000>>)

\* the tables of the CalculateError text: d=3, code qubits only
Example ==
    LET s(a, b, c) == <<a, b, c>>
        table(p000, p1, p2, p111) ==
            [k \in { s(a, b, c) : a \in {"0", "1"}, b \in {"0", "1"}, c \in {"0", "1"} } |->
                LET ones == Cardinality({ i \in 1..3 : k[i] = "1" })
                IN  Thousandths(CASE ones = 0 -> p000 [] ones = 1 -> p1
                                  [] ones = 2 -> p2 [] OTHER -> p111)]
    IN  [b \in Bits |-> IF b = 0 THEN table(669, 100, 10, 1) ELSE table(1, 10, 100, 669)]

CalcInputs ==
    { [b \in Bits |-> IF b = 0 THEN p ELSE q] : p \in CalcDicts, q \in CalcDicts }
        \cup {Example}

InitCalc ==
    /\ device = "ibmqx3"
    /\ d = MinSize
    /\ pc = "calc"
    /\ run = 0
    /\ bit = 0
    /\ results = NoResponse
    /\ resultsRaw = EmptyPair
    /\ resultsFull = EmptyPair
    /\ resultsCode \in CalcInputs
    /\ resultsSingle = EmptyPair
    /\ todo = {}
    /\ errorFull = ZeroPair
    /\ errorCode = ZeroPair
    /\ errorSingle = ZeroPair
    /\ errorFullMean = ZeroTable
    /\ errorFullVar = ZeroTable
    /\ errorCodeMean = ZeroTable
    /\ errorCodeVar = ZeroTable
    /\ errorSingleMean = ZeroTable
    /\ errorSingleVar = ZeroTable
    /\ trials = <<>>
    /\ repetitionScript = <<>>
    /\ printed = <<>>

\* errorCode[bit] = CalculateError(bit,resultsCode) for both bits
Calc ==
    /\ pc = "calc"
    /\ errorCode' = [b \in Bits |-> CalculateError(b, resultsCode)]
    /\ pc' = "calc_done"
    /\ UNCHANGED <<circuit, device, d, run, bit, results, dicts, todo, errorFull, errorSingle,
                   accs, trials>>

InitCalls == InitGetData \/ InitCalc

CallsNext == GetDataNext \/ Calc

SpecCalls == InitCalls /\ [][CallsNext]_vars

\* the program leaves the statement that executes the job, for the test of the answer
Executes == pc = "execute" /\ pc' = "check"

\* the program leaves the test of the answer, for the loop's next pass or its end
Tests == pc = "check" /\ pc' \in {"execute", "keys"}

\* the same calls, run as Python runs them: the program does not stop for ever at
\* the execution of the job or at the test of its answer; what the backend
\* answers is not the program's choice
FairSpecCalls == SpecCalls /\ WF_pc(Executes) /\ WF_pc(Tests)

---------------------------------------------------------------------------
(* The remapping of one raw string on its own: GetData's key loop over a    *)
(* raw table of bit 0 that holds a single string with all the shots.       *)

\* the sets of at most k addresses of a register of num qubits
RECURSIVE AddressSets(_, _)
AddressSets(num, k) ==
    IF k = 0 THEN {{}}
    ELSE LET fewer == AddressSets(num, k - 1)
         IN  fewer \cup { S \cup {a} : S \in fewer, a \in 0..(num - 1) }

\* raw strings of register length with at most MaxOnes qubits read as "1"
RawStrings(num) == { RawWithOnes(S, num) : S \in AddressSets(num, MaxOnes) }

InitRemap ==
    /\ device \in Devices
    /\ d \in 2..MaxUnitD
    /\ pc = "keys"
    /\ run = 0
    /\ bit = 0
    /\ results = NoResponse
    /\ \E stringRaw \in RawStrings(Num(d, simulator)) :
          /\ resultsRaw = [b \in Bits |-> IF b = 0 THEN AddProbToResults(One, stringRaw, EmptyDict)
                                                   ELSE EmptyDict]
          /\ todo = {stringRaw}
    /\ resultsFull = EmptyPair
    /\ resultsCode = EmptyPair
    /\ resultsSingle = EmptyPair
    /\ errorFull = ZeroPair
    /\ errorCode = ZeroPair
    /\ errorSingle = ZeroPair
    /\ errorFullMean = ZeroTable
    /\ errorFullVar = ZeroTable
    /\ errorCodeMean = ZeroTable
    /\ errorCodeVar = ZeroTable
    /\ errorSingleMean = ZeroTable
    /\ errorSingleVar = ZeroTable
    /\ trials = <<>>
    /\ repetitionScript = <<>>
    /\ printed = <<>>

\* RunRepetition(bit,d,device) called on its own
InitRun ==
    /\ device \in Devices
    /\ d \in 2..MaxUnitD
    /\ pc = "run"
    /\ run = 0
    /\ bit \in Bits
    /\ results = NoResponse
    /\ resultsRaw = EmptyPair
    /\ resultsFull = EmptyPair
    /\ resultsCode = EmptyPair
    /\ resultsSingle = EmptyPair
    /\ todo = {}
    /\ errorFull = ZeroPair
    /\ errorCode = ZeroPair
    /\ errorSingle = ZeroPair
    /\ errorFullMean = ZeroTable
    /\ errorFullVar = ZeroTable
    /\ errorCodeMean = ZeroTable
    /\ errorCodeVar = ZeroTable
    /\ errorSingleMean = ZeroTable
    /\ errorSingleVar = ZeroTable
    /\ trials = <<>>
    /\ repetitionScript = <<>>
    /\ printed = <<>>

InitUnits == InitRemap \/ InitRun

UnitsNext == RemapKey \/ EnterRunRepetition

SpecUnits == InitUnits /\ [][UnitsNext]_vars

---------------------------------------------------------------------------
(* Properties *)

\* the probability a table gives a string: 0 when the string is no key of it
Prob(dict, s) == IF s \in DOMAIN dict THEN dict[s] ELSE Zero

InUnit(p) == RLeq(Zero, p) /\ RLeq(p, One)

WellFormed(dict) ==
    /\ \A s \in DOMAIN dict : RLeq(Zero, dict[s])
    /\ RLeq(Total(dict), One)

\* the sum the decoder is meant to compute, over the keys in S: the mass of the
\* strings the other table makes likelier, and half the mass of the tied ones
DecoderSum(b, P, S) ==
    LET lost == { s \in S : RLess(P[b][s], Prob(P[1 - b], s)) }
        tied == { s \in S : P[b][s] = Prob(P[1 - b], s) }
    IN  RAdd(SumOver(P[b], lost), RMul(Half, SumOver(P[b], tied)))

\* the keys of resultsRaw[b] the loop has been through
Processed(b) ==
    IF b = bit /\ pc = "keys" THEN DOMAIN resultsRaw[b] \ todo ELSE DOMAIN resultsRaw[b]

(* C1: conservation of probability mass.  While GetData loops over the keys *)
(* of resultsRaw[bit], each of resultsFull[bit], resultsCode[bit] and       *)
(* resultsSingle[bit] sums to the mass of the raw keys gone through so far  *)
(* (none skipped, none counted twice); once the loop is over each of them   *)
(* sums to the total of the raw distribution, which is 1 when that is 1.    *)
C1_Conservation ==
    pc \in {"keys", "errors", "returned"} =>
        \A b \in 0..bit :
            LET mass == SumOver(resultsRaw[b], Processed(b))
            IN  /\ Total(resultsFull[b]) = mass
                /\ Total(resultsCode[b]) = mass
                /\ Total(resultsSingle[b]) = mass
                /\ (Processed(b) = DOMAIN resultsRaw[b] /\ Total(resultsRaw[b]) = One)
                        => mass = One

\* both loops are over and, for bit 1, two raw keys fell onto one single-qubit string
C1_Witness ==
    /\ pc = "errors"
    /\ Cardinality(DOMAIN resultsRaw[1]) = 2
    /\ Cardinality(DOMAIN resultsSingle[1]) = 1
    /\ Total(resultsSingle[1]) = One

(* C2: CalculateError(bit, results) is the sum, over the keys s of          *)
(* results[bit], of right if wrong > right, of 0.5*right if wrong = right   *)
(* and of 0 otherwise.  When one shared string s has P0[s] = P1[s] = x and  *)
(* no other string has mass under both, each bit's error is 0.5*x.          *)
C2_DecoderSum ==
    /\ pc = "calc_done" =>
          /\ \A b \in Bits : errorCode[b] = DecoderSum(b, resultsCode, DOMAIN resultsCode[b])
          /\ \A s \in DOMAIN resultsCode[0] \cap DOMAIN resultsCode[1] :
                ( /\ resultsCode[0][s] = resultsCode[1][s]
                  /\ \A t \in (DOMAIN resultsCode[0] \cup DOMAIN resultsCode[1]) \ {s} :
                        Prob(resultsCode[0], t) = Zero \/ Prob(resultsCode[1], t) = Zero )
                => \A b \in Bits : errorCode[b] = RMul(Half, resultsCode[0][s])
    /\ pc = "returned" =>
          \A b \in Bits :
              /\ errorFull[b] = DecoderSum(b, resultsFull, DOMAIN resultsFull[b])
              /\ errorCode[b] = DecoderSum(b, resultsCode, DOMAIN resultsCode[b])
              /\ errorSingle[b] = DecoderSum(b, resultsSingle, DOMAIN resultsSingle[b])

\* decoded tables with a tied string and a string the other table makes likelier
C2_Witness ==
    /\ pc = "calc_done"
    /\ \E s, t \in DOMAIN resultsCode[0] :
          /\ resultsCode[0][s] # Zero
          /\ resultsCode[0][s] = Prob(resultsCode[1], s)
          /\ RLess(Zero, resultsCode[0][t])
          /\ RLess(resultsCode[0][t], Prob(resultsCode[1], t))
    /\ errorCode[0] = <<3, 4>>

(* C3: for the two d=3 tables of the CalculateError text, the error of      *)
(* either bit is 0.01+0.01+0.01+0.001 = 0.031, in exact arithmetic.         *)
C3_Example ==
    (pc = "calc_done" /\ resultsCode = Example) =>
        /\ errorCode[0] = Thousandths(31)
        /\ errorCode[1] = Thousandths(31)
        /\ errorCode[0] = RAdd(RAdd(RAdd(Thousandths(10), Thousandths(10)),
                                    Thousandths(10)), Thousandths(1))

\* the example has been decoded
C3_Witness ==
    /\ pc = "calc_done"
    /\ resultsCode = Example
    /\ resultsCode[0][<<"0", "0", "0">>] = <<669, 1000>>
    /\ resultsCode[1][<<"0", "1", "1">>] = <<1, 10>>

\* no string has nonzero probability under both tables
DisjointSupport(P) ==
    \A s \in DOMAIN P[0] \cap DOMAIN P[1] : P[0][s] = Zero \/ P[1][s] = Zero

(* C4: when the two tables have disjoint support, CalculateError returns    *)
(* exactly 0 for both bits.                                                 *)
C4_Separable ==
    /\ (pc = "calc_done" /\ DisjointSupport(resultsCode)) =>
          \A b \in Bits : errorCode[b] = Zero
    /\ pc = "returned" =>
          /\ DisjointSupport(resultsFull) => \A b \in Bits : errorFull[b] = Zero
          /\ DisjointSupport(resultsCode) => \A b \in Bits : errorCode[b] = Zero
          /\ DisjointSupport(resultsSingle) => \A b \in Bits : errorSingle[b] = Zero

\* decoded tables of total 1 each, on different strings
C4_Witness ==
    /\ pc = "calc_done"
    /\ DisjointSupport(resultsCode)
    /\ Total(resultsCode[0]) = One
    /\ Total(resultsCode[1]) = One

\* the two tables give every string the same probability
SameDistribution(P) ==
    \A s \in DOMAIN P[0] \cup DOMAIN P[1] : Prob(P[0], s) = Prob(P[1], s)

(* C5: when the two tables are the same distribution, summing to 1,         *)
(* CalculateError returns exactly 0.5 for both bits.                        *)
C5_Ambiguous ==
    /\ (pc = "calc_done" /\ SameDistribution(resultsCode) /\ Total(resultsCode[0]) = One) =>
          \A b \in Bits : errorCode[b] = Half
    /\ (pc = "returned" /\ SameDistribution(resultsFull) /\ Total(resultsFull[0]) = One) =>
          \A b \in Bits : errorFull[b] = Half

\* decoded tables that are one distribution over two strings
C5_Witness ==
    /\ pc = "calc_done"
    /\ SameDistribution(resultsCode)
    /\ Total(resultsCode[0]) = One
    /\ Cardinality(DOMAIN resultsCode[0]) >= 2
    /\ \A s \in DOMAIN resultsCode[0] : resultsCode[0][s] # Zero

(* C6: for well-formed tables (no negative value, each summing to at most   *)
(* 1) CalculateError returns a value in [0,1] for either bit; so does every *)
(* entry of errorFull, errorCode and errorSingle that GetData returns.      *)
C6_InUnitInterval ==
    /\ (pc = "calc_done" /\ WellFormed(resultsCode[0]) /\ WellFormed(resultsCode[1])) =>
          \A b \in Bits : InUnit(errorCode[b])
    /\ pc = "returned" =>
          \A b \in Bits :
              InUnit(errorFull[b]) /\ InUnit(errorCode[b]) /\ InUnit(errorSingle[b])

\* well-formed tables decoded with a nonzero error for both bits
C6_Witness ==
    /\ pc = "calc_done"
    /\ WellFormed(resultsCode[0])
    /\ WellFormed(resultsCode[1])
    /\ Total(resultsCode[0]) = One
    /\ errorCode[0] # Zero
    /\ errorCode[1] # Zero

(* C7: a string that is a key of one table only is no error and adds        *)
(* nothing: the error of either bit is the decoder's sum over the strings   *)
(* that are keys of both tables, whatever the one-sided strings and their   *)
(* probabilities are.                                                       *)
C7_OneSidedKeys ==
    pc = "calc_done" =>
        \A b \in Bits :
            errorCode[b] =
                DecoderSum(b, resultsCode, DOMAIN resultsCode[0] \cap DOMAIN resultsCode[1])

\* decoded tables, each with a string of nonzero probability the other lacks
C7_Witness ==
    /\ pc = "calc_done"
    /\ \E s \in DOMAIN resultsCode[0] \ DOMAIN resultsCode[1] : resultsCode[0][s] # Zero
    /\ \E s \in DOMAIN resultsCode[1] \ DOMAIN resultsCode[0] : resultsCode[1][s] # Zero

(* C8: no estimate from an incomplete sample.  An answer with a 'status'    *)
(* key is only ever followed by another execution, with the trial counter,  *)
(* the distance, the tables, the errors and every accumulator left as they  *)
(* were; RunRepetition returns only out of an answer without 'status', as   *)
(* that answer's counts over shots; CalculateError runs on tables that hold *)
(* a whole sample for both bits; and the accumulators and the trial counter *)
(* change only when GetData has returned or the distance is finished.       *)
C8_NoIncompleteSample ==
    [][ /\ (pc = "check" /\ results.status) =>
              (pc' = "execute" /\ UNCHANGED <<d, run, bit, dicts, errs, accs, trials>>)
        /\ (pc = "check" /\ pc' = "keys") =>
              /\ ~results.status
              /\ NatSum(results.counts, DOMAIN results.counts) = shots
              /\ resultsRaw'[bit] =
                    [k \in DOMAIN results.counts |-> Norm(<<results.counts[k], shots>>)]
        /\ pc = "errors" =>
              \A b \in Bits : Total(resultsRaw[b]) = One /\ Total(resultsFull[b]) = One
        /\ accs' # accs => pc \in {"returned", "loop"}
        /\ run' # run => pc \in {"returned", "next"}
      ]_vars

\* in the second trial, for bit 1, an answer with 'status' and a part of the counts
\* has been dropped and the job is about to run again
C8_Witness ==
    /\ pc = "execute"
    /\ results.status
    /\ DOMAIN results.counts # {}
    /\ run = 1
    /\ bit = 1
    /\ errorFullMean # ZeroTable

(* C9: a call of GetData with d < 2 is rejected before any execution on the *)
(* backend: with d < 2 the program never gets as far as holding an answer   *)
(* of the backend, let alone tables or errors made from one.                *)
C9_InvalidDistanceRejected ==
    d < 2 => pc \notin {"check", "keys", "errors", "returned"}

RECURSIVE SeqSum(_)
SeqSum(seq) == IF seq = <<>> THEN Zero ELSE RAdd(seq[1], SeqSum(Tail(seq)))

\* the arithmetic mean and the population variance of a sequence of values
MeanOf(seq) == RDiv(SeqSum(seq), Len(seq))
VarianceOf(seq) ==
    RSub(RDiv(SeqSum([i \in 1..Len(seq) |-> RMul(seq[i], seq[i])]), Len(seq)),
         RMul(MeanOf(seq), MeanOf(seq)))

Permutations(n) == { p \in [1..n -> 1..n] : \A i, j \in 1..n : p[i] = p[j] => i = j }

\* the script's additions and its final subtraction, over a sequence of GetData returns
RECURSIVE Replay(_, _, _)
Replay(seq, dist, tables) ==
    IF seq = <<>>
    THEN [fullMean |-> tables.fullMean,
          fullVar |-> FinishVar(tables.fullVar, tables.fullMean, dist),
          codeMean |-> tables.codeMean,
          codeVar |-> FinishVar(tables.codeVar, tables.codeMean, dist),
          singleMean |-> tables.singleMean,
          singleVar |-> FinishVar(tables.singleVar, tables.singleMean, dist)]
    ELSE Replay(Tail(seq), dist,
                [fullMean |-> FoldMean(tables.fullMean, dist, seq[1].full),
                 fullVar |-> FoldVar(tables.fullVar, dist, seq[1].full),
                 codeMean |-> FoldMean(tables.codeMean, dist, seq[1].code),
                 codeVar |-> FoldVar(tables.codeVar, dist, seq[1].code),
                 singleMean |-> FoldMean(tables.singleMean, dist, seq[1].single),
                 singleVar |-> FoldVar(tables.singleVar, dist, seq[1].single)])

ZeroTables ==
    [fullMean |-> ZeroTable, fullVar |-> ZeroTable, codeMean |-> ZeroTable,
     codeVar |-> ZeroTable, singleMean |-> ZeroTable, singleVar |-> ZeroTable]

(* C10: aggregation.  When the variances of distance d are finished, with   *)
(* e_1..e_n the errors the n = totalRuns GetData calls of d returned, each  *)
(* Mean entry of d is (e_1+...+e_n)/n and each Var entry is                 *)
(* (e_1^2+...+e_n^2)/n - mean^2, and adding the same trials in any other    *)
(* order ends with the same entries.                                        *)
C10_Aggregation ==
    pc \in {"next", "done"} =>
        /\ Len(trials) = totalRuns
        /\ \A b \in Bits :
              LET full == [i \in 1..Len(trials) |-> trials[i].full[b]]
                  code == [i \in 1..Len(trials) |-> trials[i].code[b]]
                  single == [i \in 1..Len(trials) |-> trials[i].single[b]]
              IN  /\ errorFullMean[d - 3][b] = MeanOf(full)
                  /\ errorFullVar[d - 3][b] = VarianceOf(full)
                  /\ errorCodeMean[d - 3][b] = MeanOf(code)
                  /\ errorCodeVar[d - 3][b] = VarianceOf(code)
                  /\ errorSingleMean[d - 3][b] = MeanOf(single)
                  /\ errorSingleVar[d - 3][b] = VarianceOf(single)
        /\ \A p \in Permutations(Len(trials)) :
              LET other == Replay([i \in 1..Len(trials) |-> trials[p[i]]], d, ZeroTables)
              IN  /\ other.fullMean[d - 3] = errorFullMean[d - 3]
                  /\ other.fullVar[d - 3] = errorFullVar[d - 3]
                  /\ other.codeMean[d - 3] = errorCodeMean[d - 3]
                  /\ other.codeVar[d - 3] = errorCodeVar[d - 3]
                  /\ other.singleMean[d - 3] = errorSingleMean[d - 3]
                  /\ other.singleVar[d - 3] = errorSingleVar[d - 3]

\* a finished distance whose trials returned different errors
C10_Witness ==
    /\ pc = "next"
    /\ d = maxSize
    /\ Len(trials) = totalRuns
    /\ trials[1].full[0] # trials[Len(trials)].full[0]
    /\ trials[1].full[0] # Zero
    /\ errorFullVar[d - 3][0] # Zero
    /\ errorCodeVar[d - 3][1] # Zero


\* the six accumulators' entries of one index
Entry(n) ==
    <<errorFullMean[n], errorFullVar[n], errorCodeMean[n], errorCodeVar[n],
      errorSingleMean[n], errorSingleVar[n]>>

ZeroEntry == <<ZeroPair, ZeroPair, ZeroPair, ZeroPair, ZeroPair, ZeroPair>>

(* C11: per-distance isolation.  The index d-3 of the distance at work is   *)
(* one of the accumulators' indices 0..5, and different distances have      *)
(* different indices; the entries of a distance are 0 until its first trial *)
(* is added, and so are those of the distances still to come; a step        *)
(* changes no entry but that of index d-3; and what it writes there is made *)
(* of the entry of d-3 and the errors of the trial alone.                   *)
C11_Isolation ==
    /\ [](/\ d - 3 \in 0..(NumSizes - 1)
          /\ \A n \in 0..(NumSizes - 1) : n > d - 3 => Entry(n) = ZeroEntry
          /\ (run = 0 /\ pc \notin {"next", "done"}) => Entry(d - 3) = ZeroEntry
          /\ \A d1, d2 \in MinSize..maxSize : d1 # d2 =>
                /\ d1 - 3 # d2 - 3
                /\ {d1 - 3, d2 - 3} \subseteq 0..(NumSizes - 1))
    /\ [][ /\ \A n \in 0..(NumSizes - 1) : n # d - 3 => Entry(n)' = Entry(n)
           /\ (pc = "returned" /\ pc' = "loop") =>
                 \A b \in Bits :
                    /\ errorFullMean'[d - 3][b] =
                          RAdd(errorFullMean[d - 3][b], RDiv(errorFull[b], totalRuns))
                    /\ errorCodeMean'[d - 3][b] =
                          RAdd(errorCodeMean[d - 3][b], RDiv(errorCode[b], totalRuns))
                    /\ errorSingleMean'[d - 3][b] =
                          RAdd(errorSingleMean[d - 3][b], RDiv(errorSingle[b], totalRuns))
                    /\ errorFullVar'[d - 3][b] =
                          RAdd(errorFullVar[d - 3][b], RDiv(RSquare(errorFull[b]), totalRuns))
           /\ (pc = "loop" /\ pc' = "next") =>
                 \A b \in Bits :
                    /\ errorFullVar'[d - 3][b] =
                          RSub(errorFullVar[d - 3][b], RSquare(errorFullMean[d - 3][b]))
                    /\ errorCodeVar'[d - 3][b] =
                          RSub(errorCodeVar[d - 3][b], RSquare(errorCodeMean[d - 3][b]))
                    /\ errorSingleVar'[d - 3][b] =
                          RSub(errorSingleVar[d - 3][b], RSquare(errorSingleMean[d - 3][b]))
         ]_vars

\* the last distance is finished and an earlier one has kept entries of its own
C11_Witness ==
    /\ pc = "next"
    /\ d = maxSize
    /\ d > MinSize
    /\ errorFullMean[d - 3] # ZeroPair
    /\ errorFullMean[0] # ZeroPair
    /\ errorFullMean[0] # errorFullMean[d - 3]
    /\ errorCodeVar[0] # errorCodeVar[d - 3]


\* the table a view makes of a raw table on its own: every string of the view
\* with the mass of the raw keys that are read as it (view: raw key |-> string)
ViewOf(raw, view) ==
    [s \in { view[k] : k \in DOMAIN raw } |->
        SumOver(raw, { k \in DOMAIN raw : view[k] = s })]

FullOf(raw) == ViewOf(raw, [k \in DOMAIN raw |-> StringFull(k, d, simulator)])
CodeOf(raw) ==
    ViewOf(raw, [k \in DOMAIN raw |-> StringCode(StringFull(k, d, simulator), d)])
SingleOf(raw) == ViewOf(raw, [k \in DOMAIN raw |-> StringSingle(k, d, simulator)])

(* C12: no carry-over between trials.  Every call of GetData begins with    *)
(* the four pairs of tables empty, and the tables of a bit stay empty until *)
(* that bit's RunRepetition of this call has returned; so the three pairs   *)
(* of errors a call returns are those of the two raw tables of this call    *)
(* alone, whatever the trials before it were; and a step between the return *)
(* of one call and the entry of the next changes nothing but the            *)
(* accumulators and the trial counter.                                      *)
C12_NoCarryOver ==
    /\ [](/\ (pc = "run" /\ bit = 0) =>
                (/\ resultsRaw = EmptyPair /\ resultsFull = EmptyPair
                 /\ resultsCode = EmptyPair /\ resultsSingle = EmptyPair)
          /\ pc \in {"run", "execute", "check"} =>
                (/\ resultsRaw[bit] = EmptyDict /\ resultsFull[bit] = EmptyDict
                 /\ resultsCode[bit] = EmptyDict /\ resultsSingle[bit] = EmptyDict)
          /\ pc = "returned" =>
                /\ errorFull = [b \in Bits |->
                        CalculateError(b, [c \in Bits |-> FullOf(resultsRaw[c])])]
                /\ errorCode = [b \in Bits |->
                        CalculateError(b, [c \in Bits |-> CodeOf(resultsRaw[c])])]
                /\ errorSingle = [b \in Bits |->
                        CalculateError(b, [c \in Bits |-> SingleOf(resultsRaw[c])])])
    /\ [][ /\ pc = "call" =>
                 (/\ resultsRaw' = EmptyPair /\ resultsFull' = EmptyPair
                  /\ resultsCode' = EmptyPair /\ resultsSingle' = EmptyPair)
           /\ pc \in {"returned", "loop", "next"} => UNCHANGED <<dicts, errs>>
         ]_vars

\* the second trial of a distance has returned errors other than the first's,
\* from raw tables of its own
C12_Witness ==
    /\ pc = "returned"
    /\ run = 1
    /\ Len(trials) = 1
    /\ trials[1].full # errorFull
    /\ trials[1].code # errorCode
    /\ errorFull[0] # Zero
    /\ \A b \in Bits : Total(resultsRaw[b]) = One


\* the raw bit of a qubit's address: address a is read at index len-1-a
RawBit(stringRaw, address) == PyIndex(stringRaw, Len(stringRaw) - 1 - address)

(* C13: the shape of the remapped strings.  For d >= 2, either kind of      *)
(* device and a raw string k of register length that the key loop has gone  *)
(* through: stringFull has 2d-1 characters, the one at position 2n is k's   *)
(* bit at the address of code qubit n and the one at 2n+1 is k's bit at the *)
(* address of ancilla n; stringCode has d characters, the characters of     *)
(* stringFull at the even positions in order; stringSingle is k's bit at    *)
(* GetAddress(d-1,1).                                                       *)
C13_RemapperShape ==
    (pc = "keys" /\ d >= 2) =>
        \A k \in DOMAIN resultsRaw[bit] \ todo :
            Len(k) = Num(d, simulator) =>
                /\ \E f \in DOMAIN resultsFull[bit] :
                      /\ Len(f) = 2 * d - 1
                      /\ \A n \in 0..(d - 1) :
                            PyIndex(f, 2 * n) = RawBit(k, GetAddress(n, 0, simulator))
                      /\ \A n \in 0..(d - 2) :
                            PyIndex(f, 2 * n + 1) = RawBit(k, GetAddress(n, 1, simulator))
                      /\ \E c \in DOMAIN resultsCode[bit] :
                            /\ Len(c) = d
                            /\ \A n \in 0..(d - 1) : PyIndex(c, n) = PyIndex(f, 2 * n)
                /\ <<RawBit(k, GetAddress(d - 1, 1, simulator))>> \in DOMAIN resultsSingle[bit]
                /\ Cardinality(DOMAIN resultsRaw[bit]) = 1 =>
                      /\ Cardinality(DOMAIN resultsFull[bit]) = 1
                      /\ Cardinality(DOMAIN resultsCode[bit]) = 1
                      /\ Cardinality(DOMAIN resultsSingle[bit]) = 1

\* on the device with the largest distance, a raw string with "1" at the single
\* qubit and at one more qubit has gone through the loop
C13_Witness ==
    /\ pc = "keys"
    /\ todo = {}
    /\ device = "ibmqx3"
    /\ d = MaxUnitD
    /\ DOMAIN resultsSingle[0] = {<<"1">>}
    /\ \E c \in DOMAIN resultsCode[0] : \E n \in 1..Len(c) : c[n] = "1"
    /\ \E f \in DOMAIN resultsFull[0] : Len(f) = 2 * d - 1


\* the qubits of the gates of one kind in the circuit, by the gate's position
GatesOf(op) == { i \in 1..Len(repetitionScript) : repetitionScript[i][1] = op }

(* C14: one address per qubit role.  On a simulator with d >= 2, and on the *)
(* device with d in 2..8, the addresses GetAddress gives the d code qubits, *)
(* the d-1 ancillas and the single qubit are 2d different addresses of the  *)
(* register; on the device code qubit n is at (5-2n)%16 and ancilla n at    *)
(* (4-2n)%16; the ancilla after code qubit n is the one before code qubit   *)
(* n+1; and the circuit RunRepetition builds has its x gates (bit 1) on the *)
(* code qubits and the single qubit, its CNOTs on the code qubits and the   *)
(* ancillas, and measures the whole register.                               *)
C14_OneAddressPerRole ==
    (d >= 2 /\ (simulator \/ d <= LargestDeviceSize)) =>
        LET codes == { GetAddress(n, 0, simulator) : n \in 0..(d - 1) }
            ancillas == { GetAddress(n, 1, simulator) : n \in 0..(d - 2) }
            single == GetAddress(d - 1, 1, simulator)
            num == Num(d, simulator)
        IN  /\ Cardinality(codes) = d
            /\ Cardinality(ancillas) = d - 1
            /\ Cardinality(codes \cup ancillas \cup {single}) = 2 * d
            /\ codes \cup ancillas \cup {single} \subseteq 0..(num - 1)
            /\ ~simulator =>
                  /\ \A n \in 0..(d - 1) : GetAddress(n, 0, simulator) = (5 - 2 * n) % 16
                  /\ \A n \in 0..(d - 2) : GetAddress(n, 1, simulator) = (4 - 2 * n) % 16
            /\ \A n \in 0..(d - 2) :
                  GetAddress(n, 1, simulator) = GetAddress(n + 1, -1, simulator)
            /\ pc = "execute" =>
                  /\ { repetitionScript[i][2] : i \in GatesOf("measure") } = 0..(num - 1)
                  /\ bit = 1 =>
                        { repetitionScript[i][2] : i \in GatesOf("x") } = codes \cup {single}
                  /\ { repetitionScript[i][2] : i \in GatesOf("cx") }
                        \cup { repetitionScript[i][3] : i \in GatesOf("cx") }
                        = codes \cup ancillas

\* the circuit of bit 1 for the largest distance on the device: the single qubit
\* is qubit 6, the last code qubit is qubit 7
C14_Witness ==
    /\ pc = "execute"
    /\ device = "ibmqx3"
    /\ d = LargestDeviceSize
    /\ bit = 1
    /\ \E i \in GatesOf("x") : repetitionScript[i][2] = 6
    /\ \E i \in GatesOf("x") : repetitionScript[i][2] = GetAddress(d - 1, 0, simulator)
    /\ Cardinality(GatesOf("x")) = d + 1

\* the (control, target) pairs of RunRepetition's AddCnot calls
Requested ==
    { <<GetAddress(n, 0, simulator), GetAddress(n, 1, simulator)>> : n \in 0..(d - 2) }
        \cup { <<GetAddress(n, 0, simulator), GetAddress(n, -1, simulator)>> : n \in 1..(d - 1) }

\* gate i of the circuit is a CNOT between the two qubits of the pair
CnotOn(i, pair) ==
    /\ repetitionScript[i][1] = "cx"
    /\ {repetitionScript[i][2], repetitionScript[i][3]} = {pair[1], pair[2]}

(* C17: the CNOTs can be done on the device.  For 'ibmqx3' and d in 3..8,   *)
(* every pair RunRepetition hands to AddCnot has its target in              *)
(* coupling_map[control] or its control in coupling_map[target]; nothing is *)
(* printed as not entangleable; and the circuit holds one CNOT for each     *)
(* pair and no other: as asked where the map allows it, and otherwise       *)
(* turned round between Hadamards on both qubits.                           *)
C17_CnotFeasible ==
    (pc = "execute" /\ device = "ibmqx3" /\ d \in 3..LargestDeviceSize) =>
        /\ printed = <<>>
        /\ Cardinality(Requested) = 2 * (d - 1)
        /\ Cardinality(GatesOf("cx")) = 2 * (d - 1)
        /\ \A pair \in Requested :
              LET control == pair[1]
                  target == pair[2]
                  at == { i \in 1..Len(repetitionScript) : CnotOn(i, pair) }
              IN  /\ target \in coupling_map[control] \/ control \in coupling_map[target]
                  /\ Cardinality(at) = 1
                  /\ \A i \in at :
                        IF target \in coupling_map[control]
                        THEN repetitionScript[i] = <<"cx", control, target>>
                        ELSE /\ repetitionScript[i] = <<"cx", target, control>>
                             /\ repetitionScript[i - 2] = <<"h", control>>
                             /\ repetitionScript[i - 1] = <<"h", target>>
                             /\ repetitionScript[i + 1] = <<"h", control>>
                             /\ repetitionScript[i + 2] = <<"h", target>>

\* the circuit for the largest distance on the device: the CNOT of qubits 7 and 8
\* is turned round, that of qubits 15 and 14 is not
C17_Witness ==
    /\ pc = "execute"
    /\ device = "ibmqx3"
    /\ d = LargestDeviceSize
    /\ \E i \in GatesOf("cx") : repetitionScript[i][2] = 8 /\ repetitionScript[i][3] = 7
    /\ \E i \in GatesOf("cx") : repetitionScript[i][2] = 15 /\ repetitionScript[i][3] = 14
    /\ Cardinality(GatesOf("h")) > 0


(* C15: the retry is capped.  Once RunRepetition has begun to execute its   *)
(* job, the loop of executions ends, with the data or with a failure, even  *)
(* if the backend never answers with complete counts.                       *)
C15_RetryEnds ==
    (pc = "execute") ~> (pc \notin {"execute", "check"})


(* C16: the order of a trial.  The accumulators and the trial counter move  *)
(* only in two kinds of step.  One is the step that follows a return of     *)
(* GetData: by then both bits' raw tables hold a whole sample and the three *)
(* error pairs are CalculateError of this trial's tables; the step adds     *)
(* this trial once, counts it, and goes back to the loop.  The other is the *)
(* variance subtraction, taken once for a distance, when all totalRuns      *)
(* trials of it have been added and no earlier; after it the distance       *)
(* changes before anything is added again.  As many trials have been added  *)
(* as GetData calls of the distance have returned and been counted.         *)
C16_TrialOrder ==
    /\ [](Len(trials) = run /\ run <= totalRuns)
    /\ [][ /\ pc = "returned" =>
                 /\ \A b \in Bits : Total(resultsRaw[b]) = One
                 /\ errorFull = [b \in Bits |-> CalculateError(b, resultsFull)]
                 /\ errorCode = [b \in Bits |-> CalculateError(b, resultsCode)]
                 /\ errorSingle = [b \in Bits |-> CalculateError(b, resultsSingle)]
                 /\ pc' = "loop"
                 /\ run' = run + 1
                 /\ trials' = Append(trials, [full |-> errorFull, code |-> errorCode,
                                              single |-> errorSingle])
                 /\ \A b \in Bits :
                       errorFullMean'[d - 3][b] =
                           RAdd(errorFullMean[d - 3][b], RDiv(errorFull[b], totalRuns))
           /\ (pc = "loop" /\ run < totalRuns) => (pc' = "call" /\ UNCHANGED <<accs, run>>)
           /\ (pc = "loop" /\ pc' = "next") =>
                 /\ run = totalRuns
                 /\ Len(trials) = totalRuns
                 /\ UNCHANGED <<errorFullMean, errorCodeMean, errorSingleMean, run, trials>>
                 /\ \A b \in Bits :
                       errorFullVar'[d - 3][b] =
                           RSub(errorFullVar[d - 3][b], RSquare(errorFullMean[d - 3][b]))
           /\ pc = "next" =>
                 /\ UNCHANGED accs
                 /\ pc' = "done" \/ (pc' = "loop" /\ d' = d + 1 /\ run' = 0 /\ trials' = <<>>)
           /\ pc \notin {"returned", "loop", "next"} => UNCHANGED <<accs, run, trials>>
         ]_vars

\* one trial of a distance has been added and the next has not begun
C16_Witness ==
    /\ pc = "loop"
    /\ run = 1
    /\ run < totalRuns
    /\ Len(trials) = 1
    /\ errorFullMean[d - 3] # ZeroPair
    /\ errorFullVar[d - 3] # ZeroPair
    /\ \A b \in Bits : Total(resultsRaw[b]) = One


\* the sum, over the strings of either table, of the smaller of the two probabilities
SumOfMinima(res) ==
    LET keys == DOMAIN res[0] \cup DOMAIN res[1]
        least == [s \in keys |-> IF RLess(Prob(res[0], s), Prob(res[1], s))
                                 THEN Prob(res[0], s) ELSE Prob(res[1], s)]
    IN  SumOver(least, keys)

(* C18: the ancillas never hurt the decoder in total.  When GetData has     *)
(* computed its errors, errorFull[0] + errorFull[1] is the sum over the     *)
(* full strings s of the smaller of resultsFull[0][s] and resultsFull[1][s] *)
(* (0 for a string a table does not hold), and it is at most                *)
(* errorCode[0] + errorCode[1].                                             *)
C18_AncillasNeverHurt ==
    pc = "returned" =>
        /\ RAdd(errorFull[0], errorFull[1]) = SumOfMinima(resultsFull)
        /\ RAdd(errorCode[0], errorCode[1]) = SumOfMinima(resultsCode)
        /\ RLeq(RAdd(errorFull[0], errorFull[1]), RAdd(errorCode[0], errorCode[1]))

\* a call where the ancillas tell apart outcomes that the code qubits alone do
\* not: the full strings' errors are not 0 and sum to less than the code strings'
C18_Witness ==
    /\ pc = "returned"
    /\ d >= 2
    /\ RAdd(errorFull[0], errorFull[1]) # Zero
    /\ RLess(RAdd(errorFull[0], errorFull[1]), RAdd(errorCode[0], errorCode[1]))
    /\ Cardinality(DOMAIN resultsFull[0]) > Cardinality(DOMAIN resultsCode[0])


===========================================================================
